---- MODULE Spec2Model ----
(***************************************************************************)
(* Model of the game loop of the Asteroids game library: GameHandler       *)
(* (start, pause), Game.Main.prototype.frame, Game.Scene.onInitScene and   *)
(* Game.Interval.reset.  Hooks a concrete game overrides (isGameOver,      *)
(* isComplete, the interval renderer) and the wall clock (Date.now) are    *)
(* inputs drawn from small sets.                                           *)
(***************************************************************************)
EXTENDS Integers, Sequences, FiniteSets, TLC

(* ------------------------------ bounds --------------------------------- *)
\* longest scenes array the model constructs
MaxScenes == 2
\* largest value Date.now() returns
MaxTime == 2
\* the loop is followed for this many frames when timing is examined
MaxFrames == 16
\* the loop is followed for this many frames when scene sequencing is examined
MaxSceneFrames == 4
\* largest Interval.framecounter an interval renderer counts to
MaxCounter == 1
\* the loop is followed for this many frames when failing frames are examined
MaxFaultFrames == 3
\* the loop is followed for this many frames when key events are examined
MaxInputFrames == 3
\* the loop is followed for this many frames in the three-scene game
MaxTraceFrames == 7
\* the loop is followed for this many frames while an effect is in play
MaxEffectFrames == 2
\* longest lifespan (ms) an effect is constructed with
MaxLifespan == 2
\* one longer lifespan (ms), whose quotient val / lifespan is not a whole
\* number of binary digits, and the clock reading that ends it
RoundingLifespan == 49
\* largest value handed to effectValue
MaxVal == 2
\* most requestAnimFrame callbacks outstanding at once
MaxScheduled == 2
\* longest time (ms) a frame takes between its two clock readings
MaxElapsed == 18

(* ------------------------- program constants --------------------------- *)
\* GameHandler.FPSMS = 1000/60, kept as the fraction 1000/60
FPSMS == [num |-> 1000, den |-> 60]
\* maxfps is refreshed every 16th frame
MaxfpsPeriod == 16

(* ---------------------------- references ------------------------------- *)
\* a scene object: scenes[i] of the array, the end scene, or null
SceneRef(i) == <<"scenes", i>>
EndSceneRef == <<"endScene", 0>>
NullRef == <<"null", 0>>
GameRef == <<"game", 0>>

VARIABLES
  game,           \* GameHandler.game: NullRef until start(game)
  paused,         \* GameHandler.paused
  frameCount,     \* GameHandler.frameCount
  frameMultipler, \* GameHandler.frameMultipler, a fraction [num, den]
  frameStart,     \* GameHandler.frameStart
  maxfps,         \* GameHandler.maxfps
  scenes,         \* Game.Main scenes: sequence of scene references
  endScene,       \* Game.Main endScene
  currentScene,   \* Game.Main currentScene
  sceneIndex,     \* Game.Main sceneIndex
  interval,       \* scene reference -> its Scene.interval (present = non-null)
  scheduled,      \* requestAnimFrame callbacks handed to the host and not yet run
  effect,         \* the Game.EffectActor in play and the last effectValue it returned
  h               \* what the last handler did (calls made, inputs read)

vars == <<game, paused, frameCount, frameMultipler, frameStart, maxfps, scenes,
          endScene, currentScene, sceneIndex, interval, scheduled, effect, h>>

Times == 0..MaxTime
Elapsed == {0, MaxElapsed}

\* Scene.interval: null, or a Game.Interval with framecounter 0 and complete false
NoInterval == [present |-> FALSE, framecounter |-> 0, complete |-> FALSE]
NewInterval == [present |-> TRUE, framecounter |-> 0, complete |-> FALSE]

\* JavaScript ~~(a / b) for integers a, b: the quotient truncated towards zero
TruncDiv(a, b) ==
  LET q == (IF a < 0 THEN -a ELSE a) \div (IF b < 0 THEN -b ELSE b)
  IN IF (a < 0) = (b < 0) THEN q ELSE -q

\* a reset that zeroes the counter and leaves complete as it was
resetCounterOnly(iv) == [iv EXCEPT !.framecounter = 0]

\* Game.Interval.prototype.reset
reset(iv) == [iv EXCEPT !.framecounter = 0, !.complete = FALSE]

\* Game.Scene.prototype.onInitScene on scene s, as a change of the intervals
onInitScene(ivs, s) ==
  IF ivs[s].present THEN [ivs EXCEPT ![s] = reset(ivs[s])] ELSE ivs

\* currentScene.interval === null || currentScene.interval.complete
IntervalDone(iv) == ~iv.present \/ iv.complete

\* a scene advance test that does not ask the scene whether it is complete
ShouldAdvanceUnasked(iv, isComplete) == IntervalDone(iv)

\* the scene advance test of frame
ShouldAdvance(iv, isComplete) == IntervalDone(iv) /\ isComplete

\* a render branch test that forgets the interval gate
RenderAlwaysNormal(iv) == TRUE

\* a render branch test that never looks at interval.complete
RenderIgnoresComplete(iv) == ~iv.present

\* the render branch test of frame: TRUE = normal path, FALSE = interval renderer
RenderNormal(iv) == IntervalDone(iv)

\* sceneIndex++ without the wrap to 0
AdvanceIndexNoWrap(idx, len) == idx + 1

\* sceneIndex++ with the wrap to 0
AdvanceIndex(idx, len) == IF idx + 1 < len THEN idx + 1 ELSE 0

\* an interval renderer: may count a frame, may mark the interval complete
intervalRenderer(iv, count, done) ==
  [iv EXCEPT !.framecounter = IF count THEN iv.framecounter + 1 ELSE iv.framecounter,
             !.complete = done]

\* var frameInterval = frameStart - GameHandler.frameStart; if 0 then 1
FrameInterval(now, last) ==
  LET frameInterval == now - last
  IN IF frameInterval = 0 THEN 1 ELSE frameInterval

\* GameHandler.frameMultipler = frameInterval / GameHandler.FPSMS
FrameMultipler(frameInterval) ==
  [num |-> frameInterval * FPSMS.den, den |-> FPSMS.num]

\* GameHandler.maxfps after the frame
Maxfps(count, frameInterval, old) ==
  IF count % MaxfpsPeriod = 0 THEN TruncDiv(1000, frameInterval) ELSE old

\* var frameOffset = ~~(GameHandler.FPSMS - (Date.now() - frameStart))
FrameOffset(elapsed) == TruncDiv(FPSMS.num - FPSMS.den * elapsed, FPSMS.den)

\* a frame end that asks for the next frame without looking at paused
RescheduleAlways(isPaused) == 1

\* requestAnimFrame calls made at the end of a frame
Reschedule(isPaused) == IF isPaused THEN 0 ELSE 1

\* h when no frame has run in the last handler
NoStep ==
  [by |-> "none", threw |-> FALSE, wasNull |-> FALSE, gameOver |-> FALSE, complete |-> FALSE,
   calls |-> <<>>, renderIv |-> NoInterval, base |-> 0, before |-> 0, at |-> 0,
   delay |-> 0, requested |-> 0, handled |-> FALSE, event |-> "none"]

\* no Game.EffectActor has been constructed
NoEffect ==
  [made |-> FALSE, lifespan |-> 0, effectStart |-> 0, val |-> 0,
   result |-> [kind |-> "none", neg |-> FALSE, mant |-> <<>>, exp |-> 0]]

\* the scenes arrays the game is set up with: scenes[0..n-1], possibly none
SceneArrays == {[i \in 1..n |-> SceneRef(i - 1)] : n \in 0..MaxScenes}

\* GameHandler and a Game.Main as constructed and set up with one of the scenes
\* arrays scs and one of the end scenes ends; a scene has an interval or none
Constructed(scs, ends) ==
  /\ game = NullRef
  /\ paused = FALSE
  /\ frameCount = 0
  /\ frameMultipler = [num |-> 1, den |-> 1]
  /\ frameStart = 0
  /\ maxfps = 0
  /\ scenes \in scs
  /\ endScene \in ends
  /\ currentScene = NullRef
  /\ sceneIndex = -1
  /\ interval \in [{scenes[i] : i \in DOMAIN scenes} \cup {EndSceneRef}
                     -> {NoInterval, NewInterval}]
  /\ endScene = NullRef => interval[EndSceneRef] = NoInterval
  /\ scheduled = 0
  /\ effect = NoEffect
  /\ h = NoStep

Init == Constructed(SceneArrays, {EndSceneRef})

\* scenes[i]: the scene at 0-based index i, undefined (NullRef) outside the array
SceneAt(scs, i) == IF (i + 1) \in DOMAIN scs THEN scs[i + 1] ELSE NullRef

\* currentScene.onInitScene() in frame: a TypeError when the scene is undefined or null
InitScene(e, s, idx) ==
  IF s = NullRef
  THEN [e EXCEPT !.scene = s, !.index = idx, !.threw = TRUE,
                 !.calls = e.calls \o <<<<"TypeError", s>>>>]
  ELSE [e EXCEPT !.scene = s, !.index = idx, !.ivs = onInitScene(e.ivs, s),
                 !.calls = e.calls \o <<<<"onInitScene", s>>>>]

(***************************************************************************)
(* Game.Main.prototype.frame, first part: "calculate scene transition and  *)
(* current scene".  cur, idx, ivs: this.currentScene, this.sceneIndex and  *)
(* the scenes' intervals at entry; gameOver: isGameOver(); complete:       *)
(* isComplete() of the scene polled.  Gives the local currentScene, the    *)
(* new sceneIndex, the intervals, the calls made and whether a TypeError   *)
(* ended the frame.                                                        *)
(***************************************************************************)
EnterScene(cur, idx, ivs, scs, endSc, gameOver) ==
  LET e == [scene |-> cur, index |-> idx, ivs |-> ivs, threw |-> FALSE,
            wasNull |-> cur = NullRef, gameOver |-> cur # NullRef /\ gameOver,
            complete |-> FALSE,
            calls |-> IF cur = NullRef THEN <<>> ELSE <<<<"isGameOver", GameRef>>>>]
      read == [e EXCEPT !.calls = e.calls \o <<<<"read", SceneRef(0)>>>>]
  IN IF cur = NullRef THEN InitScene(read, SceneAt(scs, 0), 0)
     ELSE IF gameOver THEN InitScene(e, endSc, -1)
     ELSE e

AdvanceScene(e, scs, complete) ==
  IF e.threw \/ ~IntervalDone(e.ivs[e.scene]) THEN e
  ELSE LET polled == [e EXCEPT !.calls = e.calls \o <<<<"isComplete", e.scene>>>>,
                               !.complete = complete]
           index == AdvanceIndex(e.index, Len(scs))
           read == [polled EXCEPT !.calls = polled.calls \o <<<<"read", SceneRef(index)>>>>]
       IN IF ShouldAdvance(e.ivs[e.scene], complete)
          THEN InitScene(read, SceneAt(scs, index), index)
          ELSE polled

ResolveScene(cur, idx, ivs, scs, endSc, gameOver, complete) ==
  AdvanceScene(EnterScene(cur, idx, ivs, scs, endSc, gameOver), scs, complete)

(***************************************************************************)
(* frame, second part: the render pass on scene s from ctx.save() to       *)
(* ctx.restore().  count, done: what the interval renderer does; throws:   *)
(* the scene's onRenderScene, or its interval renderer, raises.            *)
(***************************************************************************)
RenderPass(s, ivs, count, done, throws) ==
  IF RenderNormal(ivs[s])
  THEN [ivs |-> ivs, threw |-> throws,
        calls |-> <<<<"save", GameRef>>, <<"onBeforeRenderScene", s>>,
                    <<"onRenderGame", GameRef>>, <<"onRenderScene", s>>>>
                  \o (IF throws THEN <<<<"throw", s>>>> ELSE <<<<"restore", GameRef>>>>)]
  ELSE [ivs |-> [ivs EXCEPT ![s] = intervalRenderer(ivs[s], count, done)],
        threw |-> throws,
        calls |-> <<<<"save", GameRef>>, <<"onRenderGame", GameRef>>,
                    <<"intervalRenderer", s>>>>
                  \o (IF throws THEN <<<<"throw", s>>>> ELSE <<<<"restore", GameRef>>>>)]

\* frame ended by a TypeError while resolving the scene: only sceneIndex was written
frameThrew(r, c) ==
  /\ sceneIndex' = r.index
  /\ interval' = r.ivs
  /\ frameStart' = c.last
  /\ scheduled' = c.sched
  /\ h' = [NoStep EXCEPT !.by = c.by, !.threw = TRUE, !.wasNull = r.wasNull,
                         !.gameOver = r.gameOver, !.complete = r.complete,
                         !.calls = r.calls, !.base = c.last, !.before = c.before,
                         !.at = c.at]
  /\ UNCHANGED <<frameCount, frameMultipler, maxfps, scenes, endScene, currentScene,
                 effect>>

\* frame ended by the exception of a render hook: everything after the render
\* pass (ctx.restore(), this.currentScene, the counters, requestAnimFrame) is skipped
frameRenderThrew(r, p, c) ==
  /\ p.ivs[r.scene].framecounter <= MaxCounter
  /\ sceneIndex' = r.index
  /\ interval' = p.ivs
  /\ frameStart' = c.last
  /\ scheduled' = c.sched
  /\ h' = [NoStep EXCEPT !.by = c.by, !.threw = TRUE, !.wasNull = r.wasNull,
                         !.gameOver = r.gameOver, !.complete = r.complete,
                         !.calls = r.calls \o p.calls, !.renderIv = r.ivs[r.scene],
                         !.base = c.last, !.before = c.before, !.at = c.at]
  /\ UNCHANGED <<frameCount, frameMultipler, maxfps, scenes, endScene, currentScene,
                 effect>>

\* a frame count that is never advanced
FrameCountStuck(count) == count

\* GameHandler.frameCount++
NextFrameCount(count) == count + 1

\* frame run to its end on the scene r resolved, with the render pass p
frameDone(r, p, c, now, elapsed) ==
  \E frameInterval \in {FrameInterval(now, c.last)} :
  \E requested \in {Reschedule(paused')} :
     /\ p.ivs[r.scene].framecounter <= MaxCounter
     /\ c.sched + requested <= MaxScheduled
     /\ sceneIndex' = r.index
     /\ currentScene' = r.scene
     /\ interval' = p.ivs
     /\ frameCount' = NextFrameCount(frameCount)
     /\ maxfps' = Maxfps(NextFrameCount(frameCount), frameInterval, maxfps)
     /\ frameMultipler' = FrameMultipler(frameInterval)
     /\ frameStart' = now
     /\ scheduled' = c.sched + requested
     /\ h' = [by |-> c.by, threw |-> FALSE, wasNull |-> r.wasNull,
              gameOver |-> r.gameOver, complete |-> r.complete,
              calls |-> r.calls \o p.calls, renderIv |-> r.ivs[r.scene],
              base |-> c.last, before |-> c.before, at |-> c.at,
              delay |-> FrameOffset(elapsed), requested |-> requested,
              handled |-> FALSE, event |-> "none"]
     /\ UNCHANGED <<scenes, endScene, effect>>

(***************************************************************************)
(* Game.Main.prototype.frame.  c: how it was called (by: the caller; last: *)
(* GameHandler.frameStart at entry; before: GameHandler.frameStart before  *)
(* the caller ran; at: the caller's clock reading; sched: callbacks        *)
(* outstanding).  now: Date.now() at entry; elapsed: time the frame took   *)
(* until its second Date.now().                                            *)
(***************************************************************************)
frame(limit, c, now, gameOver, complete, count, done, throws, elapsed) ==
  /\ frameCount < limit
  /\ \E r \in {ResolveScene(currentScene, sceneIndex, interval, scenes, endScene,
                            gameOver, complete)} :
       IF r.threw
       THEN frameThrew(r, c)
       ELSE \E p \in {RenderPass(r.scene, r.ivs, count, done, throws)} :
              IF p.threw
              THEN frameRenderThrew(r, p, c)
              ELSE frameDone(r, p, c, now, elapsed)

\* the scenes A, B, C of a three-scene game
SceneA == SceneRef(0)
SceneB == SceneRef(1)
SceneC == SceneRef(2)

(***************************************************************************)
(* The hooks of the three-scene game, as constraints on what a frame reads *)
(* in the current state: A.isComplete() is false in the first frame and    *)
(* true afterwards, B's interval renderer counts its first render and sets *)
(* complete on its second, B.isComplete() is still false in the fourth     *)
(* frame, C.isComplete() is always false, and isGameOver() is false until  *)
(* C has become active.  Every other hook result is free.                  *)
(***************************************************************************)
ScenarioABC(gameOver, complete, count, done) ==
  LET polled == IF currentScene = NullRef THEN SceneAt(scenes, 0)
                ELSE IF gameOver THEN endScene ELSE currentScene
      r == ResolveScene(currentScene, sceneIndex, interval, scenes, endScene,
                        gameOver, complete)
  IN /\ gameOver => currentScene \in {SceneC, endScene}
     /\ polled = SceneA => (complete <=> frameCount >= 1)
     /\ (polled = SceneB /\ frameCount = 3) => ~complete
     /\ polled = SceneC => ~complete
     /\ (~r.threw /\ r.scene = SceneB /\ ~RenderNormal(r.ivs[SceneB])) =>
          /\ count <=> r.ivs[SceneB].framecounter = 0
          /\ done <=> r.ivs[SceneB].framecounter = 1

\* the inputs one frame reads, drawn from the environment env
FrameInputs(env, c) ==
  \E now \in env.times, elapsed \in env.elapsed :
  \E gameOver \in env.gameOver, complete \in env.complete :
  \E count, done \in env.renderer, throws \in env.throws :
    /\ env.scripted => ScenarioABC(gameOver, complete, count, done)
    /\ frame(env.frames, c, now, gameOver, complete, count, done, throws, elapsed)

\* GameHandler.start(game) called with the game: window.onload, or any later call
Start(env) ==
  /\ game' = GameRef
  /\ UNCHANGED paused
  /\ \E t \in env.times :
       FrameInputs(env, [by |-> "start", last |-> t, before |-> frameStart, at |-> t,
                         sched |-> scheduled])

\* GameHandler.start run by the host as a requestAnimFrame callback
Callback(env) ==
  /\ scheduled > 0
  /\ UNCHANGED <<game, paused>>
  /\ FrameInputs(env, [by |-> "callback", last |-> frameStart, before |-> frameStart,
                       at |-> frameStart, sched |-> scheduled - 1])

\* a resume that leaves GameHandler.frameStart as the last frame set it
ResumeKeepsBaseline(t, old) == old

\* GameHandler.frameStart = Date.now() in pause(): the baseline of the resumed frame
ResumeBaseline(t, old) == t

\* GameHandler.pause()
pause(env) ==
  IF paused
  THEN /\ paused' = FALSE
       /\ \E t \in env.times :
            IF game = NullRef
            THEN \* GameHandler.game.frame of null: TypeError after the two writes
                 /\ frameStart' = ResumeBaseline(t, frameStart)
                 /\ h' = [NoStep EXCEPT !.by = "resume", !.threw = TRUE,
                                        !.before = frameStart, !.at = t,
                                        !.base = ResumeBaseline(t, frameStart)]
                 /\ UNCHANGED <<game, frameCount, frameMultipler, maxfps, scenes, endScene,
                                currentScene, sceneIndex, interval, scheduled, effect>>
            ELSE /\ UNCHANGED game
                 /\ FrameInputs(env, [by |-> "resume",
                                      last |-> ResumeBaseline(t, frameStart),
                                      before |-> frameStart, at |-> t,
                                      sched |-> scheduled])
  ELSE /\ paused' = TRUE
       /\ h' = [NoStep EXCEPT !.by = "pause"]
       /\ UNCHANGED <<game, frameCount, frameMultipler, frameStart, maxfps, scenes, endScene,
                      currentScene, sceneIndex, interval, scheduled, effect>>

(***************************************************************************)
(* document.onkeydown / document.onkeyup as the Game.Main constructor      *)
(* installs them.  by: the event kind; handler: the scene hook it is for;  *)
(* event: the argument the host passes, an event object ("event"), null    *)
(* with the event held in window.event ("null"), or nothing                *)
(* ("undefined"); handled: what the scene hook returns when it is called.  *)
(***************************************************************************)
onKey(by, handler, event, handled) ==
  IF event = "undefined"
  THEN \* event === null is false and event.keyCode is read of undefined
       [NoStep EXCEPT !.by = by, !.event = event, !.threw = TRUE]
  ELSE IF sceneIndex # -1
  THEN IF SceneAt(scenes, sceneIndex) = NullRef
       THEN [NoStep EXCEPT !.by = by, !.event = event, !.threw = TRUE,
                           !.calls = <<<<"read", SceneRef(sceneIndex)>>,
                                       <<"TypeError", NullRef>>>>]
       ELSE [NoStep EXCEPT !.by = by, !.event = event, !.handled = handled,
                           !.calls = <<<<"read", SceneRef(sceneIndex)>>,
                                       <<handler, SceneAt(scenes, sceneIndex)>>>>
                                     \o (IF handled /\ event = "event"
                                         THEN <<<<"preventDefault", GameRef>>,
                                                <<"stopPropagation", GameRef>>>>
                                         ELSE <<>>)]
  ELSE [NoStep EXCEPT !.by = by, !.event = event]

\* document.onkeydown
KeyDown(env) ==
  /\ \E event \in env.events, handled \in env.handled :
       h' = onKey("keydown", "onKeyDownHandler", event, handled)
  /\ UNCHANGED <<game, paused, frameCount, frameMultipler, frameStart, maxfps, scenes,
                 endScene, currentScene, sceneIndex, interval, scheduled, effect>>

\* document.onkeyup
KeyUp(env) ==
  /\ \E event \in env.events, handled \in env.handled :
       h' = onKey("keyup", "onKeyUpHandler", event, handled)
  /\ UNCHANGED <<game, paused, frameCount, frameMultipler, frameStart, maxfps, scenes,
                 endScene, currentScene, sceneIndex, interval, scheduled, effect>>

(***************************************************************************)
(* Scene sequencing: every result of the hooks isGameOver, isComplete and  *)
(* of the interval renderers, with the clock standing still.               *)
(***************************************************************************)
SceneEnv ==
  [frames |-> MaxSceneFrames, times |-> {0}, elapsed |-> {0},
   gameOver |-> BOOLEAN, complete |-> BOOLEAN, renderer |-> BOOLEAN,
   throws |-> {FALSE}, scripted |-> FALSE]

StartScenes == Start(SceneEnv)
CallbackScenes == Callback(SceneEnv)
PauseScenes == pause(SceneEnv)

NextScenes == StartScenes \/ CallbackScenes \/ PauseScenes

SpecScenes == Init /\ [][NextScenes]_vars

(***************************************************************************)
(* Timing and scheduling: every clock reading, with the hooks of the base  *)
(* classes (isGameOver and isComplete return false) and no intervals.      *)
(***************************************************************************)
LoopEnv ==
  [frames |-> MaxFrames, times |-> Times, elapsed |-> Elapsed,
   gameOver |-> {FALSE}, complete |-> {FALSE}, renderer |-> {FALSE},
   throws |-> {FALSE}, scripted |-> FALSE]

InitLoop ==
  /\ Init
  /\ \A s \in DOMAIN interval : interval[s] = NoInterval

StartLoop == Start(LoopEnv)
CallbackLoop == Callback(LoopEnv)
PauseLoop == pause(LoopEnv)

NextLoop == StartLoop \/ CallbackLoop \/ PauseLoop

SpecLoop == InitLoop /\ [][NextLoop]_vars

(***************************************************************************)
(* Pausing and rescheduling: the hooks of the base classes, no intervals   *)
(* and the clock standing still, which requestAnimFrame and pause() do not *)
(* look at.                                                                *)
(***************************************************************************)
PauseEnv ==
  [frames |-> MaxFrames, times |-> {0}, elapsed |-> {0},
   gameOver |-> {FALSE}, complete |-> {FALSE}, renderer |-> {FALSE},
   throws |-> {FALSE}, scripted |-> FALSE]

StartPause == Start(PauseEnv)
CallbackPause == Callback(PauseEnv)
TogglePause == pause(PauseEnv)

NextPause == StartPause \/ CallbackPause \/ TogglePause

SpecPause == InitLoop /\ [][NextPause]_vars

\* the host runs every callback handed to requestAnimFrame
FairPause == SpecPause /\ WF_vars(CallbackPause)

(***************************************************************************)
(* Failing frames: a render hook may raise, the scenes array may be empty  *)
(* and endScene may have been left null.                                   *)
(***************************************************************************)
FaultEnv ==
  [frames |-> MaxFaultFrames, times |-> {0}, elapsed |-> {0},
   gameOver |-> BOOLEAN, complete |-> BOOLEAN, renderer |-> BOOLEAN,
   throws |-> BOOLEAN, scripted |-> FALSE]

InitFaults == Constructed(SceneArrays, {EndSceneRef, NullRef})

StartFaults == Start(FaultEnv)
CallbackFaults == Callback(FaultEnv)
PauseFaults == pause(FaultEnv)

NextFaults == StartFaults \/ CallbackFaults \/ PauseFaults

SpecFaults == InitFaults /\ [][NextFaults]_vars

(***************************************************************************)
(* Key events between the frames: every result of the scene hooks and of   *)
(* the scenes' key handlers.                                               *)
(***************************************************************************)
InputEnv ==
  [frames |-> MaxInputFrames, times |-> {0}, elapsed |-> {0},
   gameOver |-> BOOLEAN, complete |-> BOOLEAN, renderer |-> BOOLEAN,
   throws |-> {FALSE}, scripted |-> FALSE, handled |-> BOOLEAN,
   events |-> {"event", "null", "undefined"}]

StartInput == Start(InputEnv)
CallbackInput == Callback(InputEnv)
KeyDownInput == KeyDown(InputEnv)
KeyUpInput == KeyUp(InputEnv)

NextInput == StartInput \/ CallbackInput \/ KeyDownInput \/ KeyUpInput

SpecInput == Init /\ [][NextInput]_vars

(***************************************************************************)
(* The three-scene game [A, B, C]: A without an interval, B with one, C    *)
(* and the end scene with or without, and the hooks of ScenarioABC.        *)
(***************************************************************************)
TraceEnv ==
  [frames |-> MaxTraceFrames, times |-> {0}, elapsed |-> {0},
   gameOver |-> BOOLEAN, complete |-> BOOLEAN, renderer |-> BOOLEAN,
   throws |-> {FALSE}, scripted |-> TRUE]

InitTrace ==
  /\ Constructed({<<SceneA, SceneB, SceneC>>}, {EndSceneRef})
  /\ interval[SceneA] = NoInterval
  /\ interval[SceneB] = NewInterval

StartTrace == Start(TraceEnv)
CallbackTrace == Callback(TraceEnv)
PauseTrace == pause(TraceEnv)

NextTrace == StartTrace \/ CallbackTrace \/ PauseTrace

SpecTrace == InitTrace /\ [][NextTrace]_vars

(***************************************************************************)
(* Natural numbers of any size, as the sequence of their digits in base    *)
(* 2^15 with the lowest digit first and the highest digit not 0; 0 is      *)
(* <<>>.  They carry the 53-bit significands of JavaScript's numbers (IEEE *)
(* doubles), which the integers of the model checker are too narrow for.   *)
(***************************************************************************)
\* binary digits in one digit of a big natural
LimbBits == 15
Base == 2 ^ LimbBits

\* the natural n as a big natural
RECURSIVE DigitsOf(_)
DigitsOf(n) == IF n = 0 THEN <<>> ELSE <<n % Base>> \o DigitsOf(n \div Base)

\* the digit of b at position i, 0 outside b
Digit(b, i) == IF i \in DOMAIN b THEN b[i] ELSE 0

\* b without zeros above its highest digit
RECURSIVE Trim(_)
Trim(b) == IF b = <<>> \/ b[Len(b)] # 0 THEN b ELSE Trim(SubSeq(b, 1, Len(b) - 1))

\* the number of binary digits of b
BitLen(b) ==
  IF b = <<>> THEN 0
  ELSE (LimbBits * (Len(b) - 1))
         + (CHOOSE k \in 1..LimbBits : 2 ^ (k - 1) <= b[Len(b)] /\ b[Len(b)] < 2 ^ k)

\* the binary digit of b worth 2^k
BitAt(b, k) == (Digit(b, (k \div LimbBits) + 1) \div (2 ^ (k % LimbBits))) % 2

\* b * 2^k
ShiftLeft(b, k) ==
  LET m == 2 ^ (k % LimbBits)
  IN Trim([i \in 1..(k \div LimbBits) |-> 0]
            \o [i \in 1..(Len(b) + 1) |->
                  ((Digit(b, i) * m) % Base) + ((Digit(b, i - 1) * m) \div Base)])

\* b divided by 2^k, the remainder dropped
ShiftRight(b, k) ==
  LET q == k \div LimbBits
      m == 2 ^ (k % LimbBits)
  IN Trim([i \in 1..(Len(b) - q) |->
             (Digit(b, i + q) \div m) + ((Digit(b, i + q + 1) % m) * (Base \div m))])

\* the number of zeros below the lowest binary 1 of b, b not 0
TrailingZeros(b) ==
  LET i == CHOOSE j \in DOMAIN b : b[j] # 0 /\ \A l \in 1..(j - 1) : b[l] = 0
  IN (LimbBits * (i - 1))
       + (CHOOSE t \in 0..(LimbBits - 1) : b[i] % (2 ^ t) = 0 /\ (b[i] \div (2 ^ t)) % 2 = 1)

\* a + b
RECURSIVE AddFrom(_, _, _, _)
AddFrom(a, b, i, carry) ==
  IF i > Len(a) /\ i > Len(b) THEN (IF carry = 1 THEN <<1>> ELSE <<>>)
  ELSE <<(Digit(a, i) + Digit(b, i) + carry) % Base>>
         \o AddFrom(a, b, i + 1, (Digit(a, i) + Digit(b, i) + carry) \div Base)
BigAdd(a, b) == AddFrom(a, b, 1, 0)

\* a - b for a >= b
RECURSIVE SubFrom(_, _, _, _)
SubFrom(a, b, i, borrow) ==
  IF i > Len(a) THEN <<>>
  ELSE <<(Base + a[i] - Digit(b, i) - borrow) % Base>>
         \o SubFrom(a, b, i + 1, IF a[i] - Digit(b, i) - borrow < 0 THEN 1 ELSE 0)
BigSub(a, b) == Trim(SubFrom(a, b, 1, 0))

\* -1, 0, 1 as a is below, equal to, above b
RECURSIVE CmpAt(_, _, _)
CmpAt(a, b, i) ==
  IF i = 0 THEN 0
  ELSE IF a[i] # b[i] THEN (IF a[i] < b[i] THEN -1 ELSE 1)
  ELSE CmpAt(a, b, i - 1)
BigCmp(a, b) ==
  IF Len(a) # Len(b) THEN (IF Len(a) < Len(b) THEN -1 ELSE 1) ELSE CmpAt(a, b, Len(a))

\* b * k for one digit k
RECURSIVE MulFrom(_, _, _, _)
MulFrom(b, k, i, carry) ==
  IF i > Len(b) THEN DigitsOf(carry)
  ELSE <<(b[i] * k + carry) % Base>> \o MulFrom(b, k, i + 1, (b[i] * k + carry) \div Base)
MulDigit(b, k) == Trim(MulFrom(b, k, 1, 0))

\* a * b
RECURSIVE MulAt(_, _, _)
MulAt(a, b, j) ==
  IF j > Len(b) THEN <<>>
  ELSE BigAdd(ShiftLeft(MulDigit(a, b[j]), LimbBits * (j - 1)), MulAt(a, b, j + 1))
BigMul(a, b) == Trim(MulAt(a, b, 1))

\* the largest q in lo..hi with d * q <= r
RECURSIVE QuotDigit(_, _, _, _)
QuotDigit(r, d, lo, hi) ==
  IF lo = hi THEN lo
  ELSE IF BigCmp(MulDigit(d, (lo + hi + 1) \div 2), r) <= 0
       THEN QuotDigit(r, d, (lo + hi + 1) \div 2, hi)
       ELSE QuotDigit(r, d, lo, ((lo + hi + 1) \div 2) - 1)

\* a divided by d > 0, from digit i of a down with rem carried in: the remainder,
\* followed by the digits of the quotient
RECURSIVE DivFrom(_, _, _, _)
DivFrom(a, d, i, rem) ==
  IF i = 0 THEN <<rem>>
  ELSE \* rem * Base + a[i], and how often d goes into it
       LET r == Trim(<<a[i]>> \o rem)
           q == QuotDigit(r, d, 0, Base - 1)
       IN DivFrom(a, d, i - 1, BigSub(r, MulDigit(d, q))) \o <<q>>
BigDiv(a, d) == DivFrom(a, d, Len(a), <<>>)

(***************************************************************************)
(* JavaScript numbers as far as effectValue needs them: the finite doubles *)
(* (-1)^neg * mant * 2^exp with mant odd and below 2^53 (0 has mant <<>>), *)
(* the infinities and NaN.  Every operation rounds its exact result to the *)
(* nearest double, ties to even; there is no overflow or underflow for the *)
(* integers the operations are given.                                      *)
(***************************************************************************)
\* binary digits in the significand of a double
SignificandBits == 53

\* the finite number (-1)^neg * mant * 2^exp, mant of at most 53 binary digits
Num(neg, mant, exp) ==
  IF mant = <<>> THEN [kind |-> "num", neg |-> FALSE, mant |-> <<>>, exp |-> 0]
  ELSE [kind |-> "num", neg |-> neg, mant |-> ShiftRight(mant, TrailingZeros(mant)),
        exp |-> exp + TrailingZeros(mant)]
Inf == [kind |-> "inf", neg |-> FALSE, mant |-> <<>>, exp |-> 0]
NegInf == [kind |-> "-inf", neg |-> TRUE, mant |-> <<>>, exp |-> 0]
NaN == [kind |-> "nan", neg |-> FALSE, mant |-> <<>>, exp |-> 0]

\* the magnitude of the integer n as a big natural
Magnitude(n) == DigitsOf(IF n < 0 THEN 0 - n ELSE n)

\* the integer n as a number
FromInt(n) == Num(n < 0, Magnitude(n), 0)

\* (-1)^neg * b * 2^exp rounded to the nearest double, ties to even
Rounded(neg, b, exp) ==
  IF BitLen(b) <= SignificandBits THEN Num(neg, b, exp)
  ELSE LET drop == BitLen(b) - SignificandBits
           kept == ShiftRight(b, drop)
           up == /\ BitAt(b, drop - 1) = 1
                 /\ \/ BitAt(kept, 0) = 1
                    \/ ShiftLeft(ShiftRight(b, drop - 1), drop - 1) # b
       IN Num(neg, IF up THEN BigAdd(kept, <<1>>) ELSE kept, exp + drop)

\* a / b for integers a and b
JsDiv(a, b) ==
  IF b = 0 THEN (IF a > 0 THEN Inf ELSE IF a < 0 THEN NegInf ELSE NaN)
  ELSE LET scale == SignificandBits + 2 + BitLen(Magnitude(b))
           dv == BigDiv(ShiftLeft(Magnitude(a), scale), Magnitude(b))
           \* the quotient with one more binary digit below it: 1 when a
           \* remainder is left
           q == BigAdd(ShiftLeft(Trim(Tail(dv)), 1),
                       IF Head(dv) # <<>> THEN <<1>> ELSE <<>>)
       IN IF a = 0 THEN FromInt(0) ELSE Rounded((a < 0) # (b < 0), q, 0 - scale - 1)

\* x * k for a number x and an integer k
JsMul(x, k) ==
  CASE x.kind = "num" -> Rounded(x.neg # (k < 0), BigMul(x.mant, Magnitude(k)), x.exp)
    [] x.kind = "nan" -> NaN
    [] x.kind = "inf" -> IF k > 0 THEN Inf ELSE IF k < 0 THEN NegInf ELSE NaN
    [] x.kind = "-inf" -> IF k > 0 THEN NegInf ELSE IF k < 0 THEN Inf ELSE NaN

\* a - y for an integer a and a finite number y: both brought to the lower of
\* the two exponents, added or subtracted exactly, then rounded
SubFinite(a, y) ==
  LET low == IF y.exp < 0 THEN y.exp ELSE 0
      am == ShiftLeft(Magnitude(a), 0 - low)
      ym == ShiftLeft(y.mant, y.exp - low)
      aneg == a < 0
      yneg == ~y.neg
  IN IF ym = <<>> THEN FromInt(a)
     ELSE IF am = <<>> \/ aneg = yneg THEN Rounded(yneg, BigAdd(am, ym), low)
     ELSE IF BigCmp(am, ym) >= 0 THEN Rounded(aneg, BigSub(am, ym), low)
     ELSE Rounded(yneg, BigSub(ym, am), low)

\* a - y for an integer a and a number y
JsSub(a, y) ==
  CASE y.kind = "num" -> SubFinite(a, y)
    [] y.kind = "nan" -> NaN
    [] y.kind = "inf" -> NegInf
    [] y.kind = "-inf" -> Inf

\* x < a and x > a for a number x and an integer a: false whenever x is NaN
JsLess(x, a) ==
  CASE x.kind = "num" -> SubFinite(a, x).mant # <<>> /\ ~SubFinite(a, x).neg
    [] x.kind = "-inf" -> TRUE
    [] OTHER -> FALSE
JsGreater(x, a) ==
  CASE x.kind = "num" -> SubFinite(a, x).mant # <<>> /\ SubFinite(a, x).neg
    [] x.kind = "inf" -> TRUE
    [] OTHER -> FALSE

\* Game.EffectActor.prototype.effectValue(val), with elapsed the value of
\* GameHandler.frameStart - this.effectStart
effectValue(val, lifespan, elapsed) ==
  LET result == JsSub(val, JsMul(JsDiv(val, lifespan), elapsed))
  IN IF JsLess(result, 0) THEN FromInt(0)
     ELSE IF JsGreater(result, val) THEN FromInt(val)
     ELSE result

\* new Game.EffectActor(p, v, lifespan)
NewEffect ==
  /\ \E lifespan \in (0..MaxLifespan) \cup {RoundingLifespan} :
       effect' = [made |-> TRUE, lifespan |-> lifespan, effectStart |-> frameStart,
                  val |-> 0, result |-> NoEffect.result]
  /\ h' = [NoStep EXCEPT !.by = "EffectActor"]
  /\ UNCHANGED <<game, paused, frameCount, frameMultipler, frameStart, maxfps, scenes,
                 endScene, currentScene, sceneIndex, interval, scheduled>>

\* a call of effectValue(val) on the effect in play
EffectValue ==
  /\ effect.made
  /\ \E val \in 0..MaxVal :
       effect' = [effect EXCEPT !.val = val,
                   !.result = effectValue(val, effect.lifespan,
                                          frameStart - effect.effectStart)]
  /\ h' = [NoStep EXCEPT !.by = "effectValue"]
  /\ UNCHANGED <<game, paused, frameCount, frameMultipler, frameStart, maxfps, scenes,
                 endScene, currentScene, sceneIndex, interval, scheduled>>

(***************************************************************************)
(* An effect in play while the loop runs: every clock reading, so that the *)
(* elapsed time of the effect is positive, zero or negative, and one late  *)
(* reading, so that an effect of that lifespan reaches its end.            *)
(***************************************************************************)
EffectEnv ==
  [frames |-> MaxEffectFrames, times |-> Times \cup {RoundingLifespan}, elapsed |-> {0},
   gameOver |-> {FALSE}, complete |-> {FALSE}, renderer |-> {FALSE},
   throws |-> {FALSE}, scripted |-> FALSE]

StartEffect == Start(EffectEnv)
CallbackEffect == Callback(EffectEnv)

NextEffect == StartEffect \/ CallbackEffect \/ NewEffect \/ EffectValue

SpecEffect == InitLoop /\ [][NextEffect]_vars

(* ------------------------- reading the history ------------------------- *)
\* the last handler ran a frame to its end
Completed == h.by \in {"start", "callback", "resume"} /\ ~h.threw

\* how often the last frame called fn, on any object and on object s
Count(fn) == Cardinality({i \in DOMAIN h.calls : h.calls[i][1] = fn})
CountOn(fn, s) == Cardinality({i \in DOMAIN h.calls : h.calls[i] = <<fn, s>>})

\* the first position of the call of fn on s in the last frame, 0 when not called
CallAt(fn, s) ==
  IF CountOn(fn, s) = 0 THEN 0
  ELSE CHOOSE i \in DOMAIN h.calls :
         /\ h.calls[i] = <<fn, s>>
         /\ \A j \in DOMAIN h.calls : h.calls[j] = <<fn, s>> => i <= j

\* the interval gate as the scene rendered in the last frame had it at render time
Gated == h.renderIv.present /\ ~h.renderIv.complete

(* ------------------------------- claims -------------------------------- *)

\* C1: a frame that runs with currentScene non-null and isGameOver() true ends
\* with sceneIndex = -1 and endScene as the active scene, whatever
\* endScene.isComplete() returns.
C1_GameOverActivatesEndScene ==
  (Completed /\ h.gameOver) => (sceneIndex = -1 /\ currentScene = endScene)

\* C2: with N >= 1 scenes, a frame without game-over leaves sceneIndex alone or
\* moves it from i to (i+1) mod N, and a frame whose polled scene reports
\* complete moves it to (i+1) mod N and activates scenes[(i+1) mod N].
C2_CyclicSingleAdvance ==
  [][(Len(scenes) >= 1 /\ Completed' /\ ~h'.gameOver)
       => /\ sceneIndex' \in {sceneIndex, (sceneIndex + 1) % Len(scenes)}
          /\ h'.complete => /\ sceneIndex' = (sceneIndex + 1) % Len(scenes)
                            /\ currentScene' = SceneAt(scenes, sceneIndex')]_vars

\* C3: with at least one scene, sceneIndex is -1 or an index of scenes in
\* every reachable state.
C3_SceneIndexInRange ==
  Len(scenes) >= 1 => (sceneIndex = -1 \/ sceneIndex \in 0..(Len(scenes) - 1))

\* C3 witness: the last scene of two completed and the index wrapped to 0
C3_WrappedToZero ==
  /\ Len(scenes) = 2 /\ Completed /\ h.complete
  /\ CountOn("isComplete", SceneRef(1)) = 1
  /\ sceneIndex = 0

\* C4: every completed frame makes exactly one render pass on the active scene:
\* the interval renderer alone when the interval is non-null and not complete at
\* render time, else onBeforeRenderScene then onRenderScene and no interval
\* renderer.
C4_RenderPathsExclusive ==
  Completed =>
    IF Gated
    THEN /\ CountOn("intervalRenderer", currentScene) = 1
         /\ Count("intervalRenderer") = 1
         /\ Count("onBeforeRenderScene") = 0
         /\ Count("onRenderScene") = 0
    ELSE /\ CountOn("onBeforeRenderScene", currentScene) = 1
         /\ CountOn("onRenderScene", currentScene) = 1
         /\ Count("onBeforeRenderScene") = 1
         /\ Count("onRenderScene") = 1
         /\ CallAt("onBeforeRenderScene", currentScene)
              < CallAt("onRenderScene", currentScene)
         /\ Count("intervalRenderer") = 0

\* C4 witness: a frame rendered a scene whose interval was not complete
C4_IntervalRendered ==
  Completed /\ Gated /\ CountOn("intervalRenderer", currentScene) = 1

\* the last frame rendered its scene through the normal path only
RenderedNormally ==
  /\ CountOn("onBeforeRenderScene", currentScene) = 1
  /\ CountOn("onRenderScene", currentScene) = 1
  /\ CallAt("onBeforeRenderScene", currentScene) < CallAt("onRenderScene", currentScene)
  /\ Count("intervalRenderer") = 0

\* the active scene has an interval that its renderer has marked complete
ActiveIntervalComplete ==
  /\ currentScene # NullRef
  /\ interval[currentScene].present
  /\ interval[currentScene].complete

\* C5 as claimed: once the active scene's interval is complete, every later
\* frame that keeps the same scene active (its isComplete() returning false, so
\* that it is not entered afresh) renders it through the normal path, also
\* endScene while isGameOver() keeps returning true.
C5_CompleteStaysNormal ==
  [][(ActiveIntervalComplete /\ Completed' /\ currentScene' = currentScene
        /\ ~h'.complete)
       => RenderedNormally']_vars

\* C5 amended: once the active scene's interval is complete, every later frame
\* in which isGameOver() returns false and the scene's isComplete() returns
\* false leaves the scene active and renders it through the normal path, never
\* through the interval renderer.
C5_CompleteStaysNormalUntilReinit ==
  [][(ActiveIntervalComplete /\ Completed' /\ ~h'.gameOver /\ ~h'.complete)
       => (currentScene' = currentScene /\ RenderedNormally')]_vars

\* C5 witness: a scene whose interval was complete at render time, kept active
\* without game-over or completion, was rendered through the normal path
C5_NormalAfterInterval ==
  /\ Completed /\ ~h.wasNull /\ ~h.gameOver /\ ~h.complete
  /\ h.renderIv.present /\ h.renderIv.complete
  /\ RenderedNormally

\* the last frame made a scene the active one: first frame, game over or advance
Entered == h.wasNull \/ h.gameOver \/ h.complete

\* C6: whenever a frame makes a scene the active scene, onInitScene() is called
\* on it before the render pass, and a non-null interval of it is at
\* framecounter 0 and complete false when the scene is rendered.
C6_InitOnEveryEntry ==
  [][(Completed' /\ (Entered' \/ currentScene' # currentScene))
       => /\ CountOn("onInitScene", currentScene)' >= 1
          /\ CallAt("onInitScene", currentScene)' < CallAt("save", GameRef)'
          /\ h'.renderIv.present
               => (h'.renderIv.framecounter = 0 /\ ~h'.renderIv.complete)]_vars

\* C6 witness: the only scene, its interval complete, reported complete and was
\* entered again by the wrap-around with its interval reset
C6_ReenteredWithReset ==
  /\ Len(scenes) = 1 /\ Completed /\ ~h.wasNull /\ ~h.gameOver /\ h.complete
  /\ CountOn("isComplete", currentScene) = 1
  /\ h.renderIv.present /\ h.renderIv.framecounter = 0 /\ ~h.renderIv.complete
  /\ CountOn("intervalRenderer", currentScene) = 1

\* C7: at most one requestAnimFrame callback is outstanding in every reachable
\* state, under any interleaving of callbacks and pause() toggles.
C7_AtMostOneOutstanding == scheduled <= 1

\* the loop has been started, has a scene to show and is not paused
Running == game # NullRef /\ Len(scenes) >= 1 /\ ~paused

\* C8: a frame that ends while paused asks for no further frame and one that
\* ends while not paused asks for exactly one; in a started loop that is paused
\* with no callback outstanding only pause() runs a frame; while the loop runs
\* unpaused a further frame is always eventually run.
C8_PauseStopsRescheduling ==
  /\ [][Completed' => /\ h'.requested = (IF paused' THEN 0 ELSE 1)
                      /\ scheduled' = scheduled + h'.requested
                                        - (IF h'.by = "callback" THEN 1 ELSE 0)]_vars
  /\ [][(game # NullRef /\ paused /\ scheduled = 0 /\ frameCount' # frameCount)
          => h'.by = "resume"]_vars
  /\ \A parity \in {0, 1} :
       (Running /\ frameCount < MaxFrames /\ frameCount % 2 = parity)
         ~> (frameCount % 2 # parity)

\* C8, amended: as C8, but in a started loop that is paused with no callback
\* outstanding a frame is run only by a call from outside the loop: pause()
\* or a further start(game).
C8_PausedLoopRunsOnlyWhenCalled ==
  /\ [][Completed' => /\ h'.requested = (IF paused' THEN 0 ELSE 1)
                      /\ scheduled' = scheduled + h'.requested
                                        - (IF h'.by = "callback" THEN 1 ELSE 0)]_vars
  /\ [][(game # NullRef /\ paused /\ scheduled = 0 /\ frameCount' # frameCount)
          => h'.by \in {"resume", "start"}]_vars
  /\ \A parity \in {0, 1} :
       (Running /\ frameCount < MaxFrames /\ frameCount % 2 = parity)
         ~> (frameCount % 2 # parity)

\* C8 witness: a callback ran its frame while paused and nothing is scheduled
C8_PausedFrameScheduledNothing ==
  /\ Completed /\ h.by = "callback" /\ paused
  /\ h.requested = 0 /\ scheduled = 0

\* the frame interval the last frame used, measured from clock reading t
IntervalSince(t) == IF frameStart - t = 0 THEN 1 ELSE frameStart - t

\* frameMultipler = x / (1000/60), as an equation between fractions
MultiplerIs(x) ==
  frameMultipler.num * FPSMS.num = x * FPSMS.den * frameMultipler.den

\* C9: the frame run by a resume measures its frame interval from the clock
\* reading of the resume, so the frameMultipler it stores leaves out the time
\* since the frame before the pause.
C9_ResumeResetsBaseline ==
  (Completed /\ h.by = "resume") => MultiplerIs(IntervalSince(h.at))

\* C9 witness: a resume two or more ms after the last frame stored the
\* multiplier of a 1 ms interval
C9_LongPauseExcluded ==
  /\ Completed /\ h.by = "resume"
  /\ h.at - h.before >= 2 /\ frameStart = h.at
  /\ MultiplerIs(1)

\* C10: after every frame frameMultipler is > 0 and equals
\* max(observedInterval, 1) / (1000/60), also when the clock reads equal or
\* earlier than at the last frame.
C10_MultiplerPositive ==
  Completed =>
    LET observed == frameStart - h.base
    IN /\ frameMultipler.num * frameMultipler.den > 0
       /\ MultiplerIs(IF observed > 1 THEN observed ELSE 1)

\* C11: the delay handed to requestAnimFrame at the end of a frame is never
\* negative, however long the frame took.
C11_DelayNeverNegative == (Completed /\ h.requested = 1) => h.delay >= 0

\* C12: GameHandler.frameCount goes up by exactly one in every frame that runs to
\* its end and is changed by nothing else: not by a frame that fails, not by
\* pausing, and it is never reset by an advance, a wrap-around or a game-over.
C12_FrameCountStepsByOne ==
  [][IF Completed' THEN frameCount' = frameCount + 1 ELSE frameCount' = frameCount]_vars

\* a resumed frame that entered the end scene has been counted like the two before it
C12_CountedThroughGameOver ==
  Completed /\ h.by = "resume" /\ h.gameOver /\ sceneIndex = -1 /\ frameCount = 3

\* the last handler ran a frame, to its end or not
FrameRan == h.by \in {"start", "callback", "resume"} /\ game # NullRef

\* the last frame was ended by the exception of a render hook
RenderFailed == FrameRan /\ h.threw /\ Count("throw") = 1

\* C13: after every frame, also one in which a render hook raised, frame has
\* called ctx.restore() as often as ctx.save().
C13_BracketClosed == FrameRan => Count("save") = Count("restore")

\* C14: a frame that fails in a render hook does not stop the loop: while not
\* paused a next frame is outstanding at the host.
C14_FailedStepKeepsLooping == (RenderFailed /\ ~paused) => scheduled >= 1

\* the last frame ran into a configuration error: the first frame with an empty
\* scenes array, or a game-over frame with endScene null
ConfigError ==
  FrameRan /\ ((h.wasNull /\ Len(scenes) = 0) \/ (h.gameOver /\ endScene = NullRef))

\* C15: a configuration error ends the frame before a scene is indexed or
\* dereferenced: no TypeError from dereferencing undefined or null, and scenes[]
\* is never read outside 0..(scenes.length - 1).
C15_ConfigErrorsFailFast ==
  /\ ConfigError => (h.threw /\ Count("TypeError") = 0)
  /\ \A i \in DOMAIN h.calls :
       h.calls[i][1] = "read" => h.calls[i][2][2] \in 0..(Len(scenes) - 1)

\* the last handler was a key event that arrived after the first completed frame
KeyArrived == h.by \in {"keydown", "keyup"} /\ frameCount >= 1

\* the scene hook a key event is for
KeyHandler == IF h.by = "keydown" THEN "onKeyDownHandler" ELSE "onKeyUpHandler"

\* C16: every key event after the first frame is forwarded to the handler of the
\* active scene (currentScene), also when that is endScene, and the default
\* handling and propagation are suppressed exactly when the handler returns true.
C16_KeysReachActiveScene ==
  KeyArrived =>
    /\ CountOn(KeyHandler, currentScene) = 1
    /\ Count(KeyHandler) = 1
    /\ (Count("preventDefault") = 1 /\ Count("stopPropagation") = 1) <=> h.handled
    /\ (Count("preventDefault") = 0 /\ Count("stopPropagation") = 0) <=> ~h.handled

\* the last handler ran the k-th frame of the game to its end
Step(k) == Completed /\ frameCount = k

\* the last frame rendered the active scene through its interval renderer only
RenderedByInterval ==
  /\ CountOn("intervalRenderer", currentScene) = 1
  /\ Count("onBeforeRenderScene") = 0
  /\ Count("onRenderScene") = 0

\* C17: the three-scene game [A, B, C]: frame 1 initialises A and renders it
\* normally; frame 2 advances to B, initialises it (interval reset) and renders
\* through the interval; frame 3 renders through the interval; frame 4 renders B
\* normally; once C is active every frame keeps C active with sceneIndex 2 until
\* isGameOver() returns true, and the frame in which it does ends with
\* sceneIndex -1.
C17_EndToEndTrace ==
  /\ [](Step(1) => /\ currentScene = SceneA /\ sceneIndex = 0
                   /\ CountOn("onInitScene", SceneA) = 1 /\ Count("onInitScene") = 1
                   /\ RenderedNormally)
  /\ [](Step(2) => /\ currentScene = SceneB /\ sceneIndex = 1
                   /\ CountOn("onInitScene", SceneB) = 1 /\ Count("onInitScene") = 1
                   /\ h.renderIv = NewInterval
                   /\ RenderedByInterval)
  /\ [](Step(3) => /\ currentScene = SceneB /\ sceneIndex = 1
                   /\ Count("onInitScene") = 0
                   /\ RenderedByInterval)
  /\ [](Step(4) => /\ currentScene = SceneB /\ sceneIndex = 1
                   /\ Count("onInitScene") = 0
                   /\ RenderedNormally)
  /\ [][(currentScene = SceneC /\ Completed' /\ ~h'.gameOver) =>
          (currentScene' = SceneC /\ sceneIndex' = 2)]_vars
  /\ [][(currentScene = SceneC /\ Completed' /\ h'.gameOver) => sceneIndex' = -1]_vars

\* the time the effect in play has lived: GameHandler.frameStart - effectStart
EffectElapsed == frameStart - effect.effectStart

\* C18: effectValue(val) returns val when the elapsed time is 0, returns 0 when
\* the elapsed time has reached the lifespan, and for every elapsed time, also a
\* negative one, and every lifespan, also 0, returns a number r with
\* 0 <= r <= val.  (With val > 0, lifespan 0 and elapsed time 0 the first two
\* demands contradict each other and are not made.)
C18_EffectValueClamped ==
  h.by = "effectValue" =>
    LET r == effect.result
        both == EffectElapsed = 0 /\ effect.lifespan = 0 /\ effect.val # 0
    IN /\ r.kind = "num" /\ ~JsLess(r, 0) /\ ~JsGreater(r, effect.val)
       /\ (EffectElapsed = 0 /\ ~both) => r = FromInt(effect.val)
       /\ (EffectElapsed >= effect.lifespan /\ ~both) => r = FromInt(0)

\* C19: a frame takes at most one branch of the scene resolution: the first frame
\* ever ends with sceneIndex 0 and scenes[0] initialised, rendered and active,
\* whatever scenes[0].isComplete() returns, and every frame calls onInitScene()
\* on at most one scene, at most once.
C19_OneBranchPerStep ==
  /\ (Completed /\ h.wasNull) =>
       /\ sceneIndex = 0
       /\ currentScene = SceneAt(scenes, 0)
       /\ CountOn("onInitScene", SceneAt(scenes, 0)) = 1
       /\ (CountOn("onRenderScene", SceneAt(scenes, 0))
             + CountOn("intervalRenderer", SceneAt(scenes, 0))) = 1
  /\ FrameRan => Count("onInitScene") <= 1

\* the scenes' intervals are changed by the step only through the interval
\* renderer of the scene that is active after it
OnlyRendererChangesInterval ==
  \A s \in DOMAIN interval :
    interval'[s] # interval[s] =>
      (s = currentScene' /\ CountOn("intervalRenderer", s)' = 1)

\* C20: a frame after which the same scene is active as before it, not re-entered
\* by a completion, does not call onInitScene() and changes the scene's interval
\* only through the interval renderer; in particular endScene is not initialised
\* again while isGameOver() stays true.
C20_SameSceneUntouched ==
  [][(Completed' /\ currentScene # NullRef /\ currentScene' = currentScene /\ ~h'.complete) =>
       (Count("onInitScene")' = 0 /\ OnlyRendererChangesInterval)]_vars

\* C20, amended: a frame in which isGameOver() returns false and no scene
\* completes keeps the active scene, does not call onInitScene() and changes its
\* interval only through the interval renderer; a frame in which isGameOver()
\* returns true calls endScene.onInitScene(), in every such frame.
C20_UntouchedUnlessEntered ==
  /\ [][(Completed' /\ ~h'.wasNull /\ ~h'.gameOver /\ ~h'.complete) =>
          /\ currentScene' = currentScene
          /\ sceneIndex' = sceneIndex
          /\ Count("onInitScene")' = 0
          /\ OnlyRendererChangesInterval]_vars
  /\ [][(Completed' /\ h'.gameOver) => CountOn("onInitScene", endScene)' = 1]_vars

\* a frame kept the scene without initialising it while its interval renderer counted
C20_KeptSceneRendererCounted ==
  /\ Completed /\ ~h.wasNull /\ ~h.gameOver /\ ~h.complete
  /\ Count("onInitScene") = 0
  /\ CountOn("intervalRenderer", currentScene) = 1
  /\ h.renderIv.framecounter = 0
  /\ interval[currentScene].framecounter = 1

\* sceneIndex and currentScene name the same scene
IndexMatchesScene ==
  /\ sceneIndex = -1 => currentScene = endScene
  /\ sceneIndex >= 0 => currentScene = SceneAt(scenes, sceneIndex)

\* the scene a key event arriving now is dispatched to, null when it reaches none
KeyTarget ==
  LET k == onKey("keydown", "onKeyDownHandler", "event", FALSE)
  IN IF Len(k.calls) = 2 /\ ~k.threw THEN k.calls[2][2] ELSE NullRef

\* the scene s went through the render pass of the last frame
RenderedInLastStep(s) ==
  CountOn("onRenderScene", s) + CountOn("intervalRenderer", s) = 1

\* C21: after every frame that ran to its end sceneIndex and currentScene agree
\* (-1 with endScene, i >= 0 with scenes[i]), so a key event is dispatched to the
\* scene rendered in the last frame; and from the end-scene state a frame in
\* which isGameOver() is false moves sceneIndex off -1 only when endScene is
\* complete, and then to 0 with scenes[0] active.
C21_IndexAndSceneAgree ==
  /\ [](Completed => IndexMatchesScene)
  /\ [](Completed /\ KeyTarget # NullRef => RenderedInLastStep(KeyTarget))
  /\ [][(sceneIndex = -1 /\ currentScene = endScene /\ endScene # NullRef
           /\ FrameRan' /\ ~h'.gameOver /\ sceneIndex' # -1) =>
          /\ h'.complete
          /\ CountOn("isComplete", endScene)' = 1
          /\ sceneIndex' = 0
          /\ Completed' => currentScene' = SceneAt(scenes, 0)]_vars

====
